---- MODULE Spec2Model ----
(***************************************************************************)
(* DailyFlow: the playback clock (hooks/useAudioPlayer.ts) and the session *)
(* orchestrator (App.tsx, second component definition, lines 615-1233).    *)
(*                                                                         *)
(* Time is counted in ticks of 0.1 s of the AudioContext clock.  A session *)
(* id doubles as the identity of the audio synthesised for that session.   *)
(* React state is read as of the latest render: every handler runs to its  *)
(* next await in one step, and a render separates any two steps.  A        *)
(* handler that calls two operations of the hook runs both as callbacks    *)
(* of one render (ClockPauseSeek).                                         *)
(***************************************************************************)
EXTENDS Integers, Sequences, FiniteSets, Bags, TLC

\* ------------------------------------------------------------------ bounds
MaxNow == 5          \* ticks the AudioContext clock may advance, hook alone
MaxAppNow == 3       \* the same, under the orchestrator
MaxOrphans == 1      \* output runs whose ended event is still undelivered
MaxPipes == 2        \* acquisitions (handleGenerate / loadAudioForScript) in flight
MaxId == 2           \* last session id handleGenerate may mint
MaxLines == 3        \* lines of a script given to calculateTimings
FloatBits == 5       \* significand bits of the floating-point numbers

\* ------------------------------------------------------- program constants
Tol == 2             \* natural-end tolerance, 0.2 s

\* ------------------------------------------------------------ audio data
SessionIds == 1..2   \* the payloads the clock is exercised with on its own
Ids == 1..MaxId      \* those and the ids minted by handleGenerate
NoId == 0            \* null
NoBuf == 0

\* duration, in ticks, of the audio synthesised for a session
DurOf(sid) == IF sid % 2 = 1 THEN 2 ELSE 4
MaxDur == DurOf(2)   \* the longest of them

\* an encoded payload: the session it was synthesised for, and whether its
\* bytes decode (atob succeeds, even byte count, at least one sample)
Payloads == [sid : Ids, ok : BOOLEAN]
ClockPayloads == [sid : SessionIds, ok : BOOLEAN]

Abs(x) == IF x < 0 THEN -x ELSE x
Min(a, b) == IF a < b THEN a ELSE b
Max(a, b) == IF a > b THEN a ELSE b

VARIABLES
    player,              \* useAudioPlayer: state, refs and the audio nodes
    now,                 \* AudioContext.currentTime
    lastEnded,           \* hook alone: the latest ended event delivered
    script,              \* id of the displayed ScriptData, NoId for null
    currentScriptIdRef,  \* the active-session token
    isLoading,           \* "Writing script..." flag of App
    error,               \* an error message is shown
    isGeneratingAudio,
    activeLineId,
    uiCurrentTime,
    user,                \* signed in
    history,             \* ids of the history entries, as listed
    cache,               \* session ids that have an audio cache entry
    pipes,               \* the suspended async functions, a bag
    nextId,              \* next value of Date.now().toString()
    genCount,            \* generator calls made for the current token
    loadCount,           \* loadAudio calls made for the current token
    resumed,             \* the continuation run by the latest step, if any
    calcArgs,            \* the script lines and duration calculateTimings is called with
    lineTimings,         \* the timing table, [] until computed
    tts,                 \* one call of generateAudioFromScript: where it stands
    definitionCache,     \* the Map of the definition service, by cache key
    localStorage,        \* the dailyflow_def_ entries, by cache key
    lookups,             \* the suspended calls of getWordDefinition, a bag
    defined,             \* by cache key: what the first lookup since the page
                         \* was loaded returned
    looked               \* the call of getWordDefinition that ended last

clockVars == <<player, now, lastEnded>>
serviceVars == <<tts, definitionCache, localStorage, lookups, defined, looked>>
timingVars == <<calcArgs, lineTimings, serviceVars>>
appVars == <<script, currentScriptIdRef, isLoading, error, isGeneratingAudio,
             activeLineId, uiCurrentTime, user, timingVars, history, cache, pipes, nextId,
             genCount, loadCount>>
vars == <<player, now, lastEnded, script, currentScriptIdRef, isLoading, error,
          isGeneratingAudio, activeLineId, uiCurrentTime, user, timingVars, history,
          cache, pipes, nextId, genCount, loadCount, resumed>>

\* ----------------------------------------------------------- timing table
\* JavaScript numbers are binary floating point, rounded to the nearest
\* value, ties to the even significand.  A number is m * 2^e with
\* 2^(FloatBits-1) <= m < 2^FloatBits, or zero; the exponent is not limited
\* (no overflow, no underflow).  Integers such as the weights are exact, as
\* they are in the 53 bits of a double.
Zero == [m |-> 0, e |-> 0]

RECURSIVE roundTo(_, _, _)
\* the number nearest to (n / d) * 2^e, for integers n >= 0 and d > 0
roundTo(n, d, e) ==
    IF n = 0 THEN Zero
    ELSE IF n \div d >= 2^FloatBits THEN roundTo(n, 2 * d, e + 1)
    ELSE IF n \div d < 2^(FloatBits - 1) THEN roundTo(2 * n, d, e - 1)
    ELSE LET q == n \div d
             r == n - q * d
             m == IF 2 * r > d \/ (2 * r = d /\ q % 2 = 1) THEN q + 1 ELSE q
         IN IF m = 2^FloatBits THEN [m |-> 2^(FloatBits - 1), e |-> e + 1]
            ELSE [m |-> m, e |-> e]

\* a / b for integers a and b
fdiv(a, b) == roundTo(a, b, 0)

\* x * y
fmul(x, y) == roundTo(x.m * y.m, 1, x.e + y.e)

\* x + y
fadd(x, y) ==
    IF x.m = 0 THEN y
    ELSE IF y.m = 0 THEN x
    ELSE LET lo == Min(x.e, y.e)
         IN roundTo(x.m * 2^(x.e - lo) + y.m * 2^(y.e - lo), 1, lo)

\* x <= y
fleq(x, y) ==
    LET lo == Min(x.e, y.e)
    IN x.m * 2^(x.e - lo) <= y.m * 2^(y.e - lo)

\* the durations, up to a power of two, and the lengths of line.english
Durations == {[m |-> k, e |-> 0] : k \in 2^(FloatBits - 1)..(2^FloatBits - 1)}
EnglishLengths == {0, 3, 7}
LineLists == UNION {[1..n -> EnglishLengths] : n \in 1..MaxLines}
NoArgs == [lines |-> <<>>, dur |-> Zero]

\* the english lengths of the lines "Hi" and "Hello there", and the
\* duration 10
ExampleLines == <<2, 11>>
Ten == roundTo(10, 1, 0)

\* the arguments of a call: any lines with any duration, the example, no
\* lines at all, and the duration 0
TimingArgs ==
    [lines : LineLists, dur : Durations]
    \cup {[lines |-> ExampleLines, dur |-> Ten]}
    \cup [lines : {<<>>}, dur : Durations \cup {Zero}]
    \cup [lines : LineLists, dur : {Zero}]

weightUnpadded(english) == english

\* weight: line.english.length + 10
weight(english) == english + 10

RECURSIVE totalWeightUnpadded(_)
totalWeightUnpadded(lines) ==
    IF lines = <<>> THEN 0
    ELSE totalWeightUnpadded(SubSeq(lines, 1, Len(lines) - 1)) + lines[Len(lines)] + 1

RECURSIVE totalWeight(_)
\* linesWithWeight.reduce((acc, l) => acc + l.weight, 0)
totalWeight(lines) ==
    IF lines = <<>> THEN 0
    ELSE totalWeight(SubSeq(lines, 1, Len(lines) - 1)) + weight(lines[Len(lines)])

RECURSIVE timingsUpTo(_, _, _)
\* the first k entries of linesWithWeight.map(...): currentTime is the end
\* of the entry before
timingsUpTo(lines, dur, k) ==
    IF k = 0 THEN <<>>
    ELSE LET before == timingsUpTo(lines, dur, k - 1)
             currentTime == IF k = 1 THEN Zero ELSE before[k - 1].end
             lineDuration == fmul(fdiv(weight(lines[k]), totalWeight(lines)), dur)
         IN Append(before, [id |-> k, start |-> currentTime,
                            end |-> fadd(currentTime, lineDuration)])

calculateTimingsGuarded(lines, dur) ==
    IF dur = Zero THEN <<>> ELSE timingsUpTo(lines, dur, Len(lines))

calculateTimings(lines, dur) == timingsUpTo(lines, dur, Len(lines))

\* --------------------------------------------------------- playback clock
\* An AudioBufferSourceNode.  st: "running", "finished" (played to the end
\* of its buffer, ended event not yet delivered), "halted" (stop() called
\* while running, ended event not yet delivered), "dead" (ended event
\* delivered).  by: the operation that started it, kept while it runs.
NoSource == [st |-> "none", endAt |-> 0, cb |-> FALSE, buf |-> NoBuf, by |-> "none"]
DeadSource == [st |-> "dead", endAt |-> 0, cb |-> FALSE, buf |-> NoBuf, by |-> "none"]

newSource(buf, offset, cb, t) ==
    [st |-> IF offset >= DurOf(buf) THEN "finished" ELSE "running",
     endAt |-> t + Max(DurOf(buf) - offset, 0), cb |-> cb, buf |-> buf,
     by |-> "seek"]

sourceStopSkipped(s) == s

\* try { source.stop() } catch (e) { }
sourceStop(s) ==
    IF s.st = "running"
    THEN [st |-> "halted", endAt |-> 0, cb |-> s.cb, buf |-> NoBuf, by |-> "none"]
    ELSE s

eventPending(s) == s.st \in {"finished", "halted"}

\* a node no longer referenced by sourceRef lives on until its ended event
\* has been delivered
release(orphans, s) ==
    IF s.st = "running" THEN Append(orphans, s)
    ELSE IF eventPending(s)
         THEN Append(orphans, [s EXCEPT !.endAt = 0, !.buf = NoBuf, !.by = "none"])
    ELSE orphans

initialPlayer ==
    [isPlaying |-> FALSE, isLoading |-> FALSE, duration |-> 0,
     contextRef |-> FALSE, sourceRef |-> NoSource, bufferRef |-> NoBuf,
     startTimeRef |-> 0, pauseTimeRef |-> 0, orphans |-> <<>>]

bufferDuration(p) == IF p.bufferRef = NoBuf THEN 0 ELSE DurOf(p.bufferRef)

getContext(p) == [p EXCEPT !.contextRef = TRUE]

loadAudioPartial(p, base64) ==
    LET c == getContext(p) IN
    IF base64.ok
    THEN [c EXCEPT !.bufferRef = base64.sid, !.pauseTimeRef = 0,
                   !.isLoading = FALSE, !.duration = DurOf(base64.sid)]
    ELSE [c EXCEPT !.bufferRef = NoBuf, !.pauseTimeRef = 0, !.isLoading = FALSE]

\* atob, new Int16Array and createBuffer throw before any ref is assigned
loadAudio(p, base64) ==
    LET c == getContext(p) IN
    IF base64.ok
    THEN [c EXCEPT !.bufferRef = base64.sid, !.pauseTimeRef = 0,
                   !.isLoading = FALSE, !.duration = DurOf(base64.sid)]
    ELSE [c EXCEPT !.isLoading = FALSE]

playAudioSource(p, offset, cb, t) ==
    LET c == getContext(p) IN
    IF c.bufferRef = NoBuf THEN c
    ELSE [c EXCEPT !.orphans = IF c.sourceRef.st = "none" THEN @
                                ELSE release(@, sourceStop(c.sourceRef)),
                   !.sourceRef = newSource(c.bufferRef, offset, cb, t),
                   !.startTimeRef = t - offset]

playUnwrapped(p, cb, t) ==
    LET c == getContext(p)
        offset == c.pauseTimeRef
    IN [playAudioSource(c, offset, cb, t) EXCEPT
           !.isPlaying = TRUE,
           !.sourceRef = IF c.bufferRef = NoBuf THEN @ ELSE [@ EXCEPT !.by = "play"]]

play(p, cb, t) ==
    LET c == getContext(p)
        offset == c.pauseTimeRef % (IF bufferDuration(c) = 0 THEN 1 ELSE bufferDuration(c))
    IN [playAudioSource(c, offset, cb, t) EXCEPT
           !.isPlaying = TRUE,
           !.sourceRef = IF c.bufferRef = NoBuf THEN @ ELSE [@ EXCEPT !.by = "play"]]

haltAndClear(p) ==
    IF p.sourceRef.st = "none" THEN p
    ELSE [p EXCEPT !.orphans = release(@, sourceStop(p.sourceRef)),
                   !.sourceRef = NoSource]

pause(p, t) ==
    LET c == haltAndClear(getContext(p)) IN
    [c EXCEPT !.pauseTimeRef = IF p.isPlaying THEN t - p.startTimeRef ELSE @,
              !.isPlaying = FALSE]

stopDiscarding(p) ==
    [haltAndClear(p) EXCEPT !.pauseTimeRef = 0, !.isPlaying = FALSE,
                            !.bufferRef = NoBuf, !.duration = 0]

stop(p) ==
    [haltAndClear(p) EXCEPT !.pauseTimeRef = 0, !.isPlaying = FALSE]

reset(p) ==
    [haltAndClear(p) EXCEPT !.bufferRef = NoBuf, !.pauseTimeRef = 0,
                            !.startTimeRef = 0, !.isPlaying = FALSE,
                            !.isLoading = FALSE, !.duration = 0]

seek(p, time, cb, t) ==
    LET c == getContext(p)
        safeTime == Max(0, Min(time, bufferDuration(c)))
        d == [c EXCEPT !.pauseTimeRef = safeTime]
    IN IF p.isPlaying THEN playAudioSource(d, safeTime, cb, t) ELSE d

\* a handler calling pause() and then seek(time): both callbacks belong to
\* the render the handler was created in, so seek tests the state.isPlaying
\* of that render, and the queued update of pause is applied afterwards
pauseSeek(p, time, cb, t) ==
    LET a == pause(p, t)
        b == seek([a EXCEPT !.isPlaying = p.isPlaying], time, cb, t)
    IN [b EXCEPT !.isPlaying = FALSE]

getCurrentTime(p, t) ==
    IF ~p.contextRef THEN 0
    ELSE IF p.isPlaying THEN t - p.startTimeRef
    ELSE p.pauseTimeRef

getDuration(p) == bufferDuration(p)

isNaturalEndExact(p, t) == (t - p.startTimeRef) = bufferDuration(p)

\* source.onended: the natural finish check
isNaturalEnd(p, t) == Abs((t - p.startTimeRef) - bufferDuration(p)) < Tol

onended(p, t) ==
    IF isNaturalEnd(p, t)
    THEN [p EXCEPT !.pauseTimeRef = 0, !.isPlaying = FALSE]
    ELSE p

\* the hardware lets every running node whose buffer is exhausted finish
finishAt(s, t) == IF s.st = "running" /\ s.endAt <= t THEN [s EXCEPT !.st = "finished"] ELSE s

advance(p, t) ==
    [p EXCEPT !.sourceRef = finishAt(@, t),
              !.orphans = [i \in 1..Len(@) |-> finishAt(@[i], t)]]

RemoveAt(s, i) == [j \in 1..(Len(s) - 1) |-> IF j < i THEN s[j] ELSE s[j + 1]]

\* ------------------------------------------------- audio nodes and time
NoEnded == [st |-> "none", calls |-> 0, late |-> 0]
\* decoded: FALSE when the step called loadAudio and loadAudio threw
NoResume == [sid |-> NoId, outcome |-> "none", decoded |-> TRUE]

Room == Len(player.orphans) < MaxOrphans

appRest == <<script, currentScriptIdRef, isLoading, error, isGeneratingAudio,
             uiCurrentTime, user, timingVars, history, cache, pipes, nextId, genCount,
             loadCount>>

\* Every value the code derives from the hardware clock is a difference
\* ctx.currentTime - startTimeRef, read while the hook reports playing or an
\* ended event is outstanding: time is counted in those states only.
timeMatters(p) ==
    \/ p.isPlaying
    \/ p.sourceRef.st \in {"running", "finished", "halted"}
    \/ p.orphans # <<>>

advanceClock(limit) ==
    /\ player.contextRef
    /\ timeMatters(player)
    /\ now < limit
    /\ now' = now + 1
    /\ player' = advance(player, now + 1)
    /\ resumed' = NoResume
    /\ UNCHANGED <<lastEnded, activeLineId, appRest>>

\* the callback App registers is () => setActiveLineId(null)
endedCalls(s) == IF isNaturalEnd(player, now) /\ s.cb THEN 1 ELSE 0

\* delivery of the ended event of the node sourceRef points at
endedCurrent ==
    /\ eventPending(player.sourceRef)
    /\ player' = [onended(player, now) EXCEPT !.sourceRef = DeadSource]
    /\ activeLineId' = IF endedCalls(player.sourceRef) = 1 THEN NoId ELSE activeLineId
    /\ resumed' = NoResume
    /\ UNCHANGED <<now, appRest>>

\* delivery of the ended event of a node sourceRef no longer points at
endedOrphan(i) ==
    /\ eventPending(player.orphans[i])
    /\ player' = [onended(player, now) EXCEPT !.orphans = RemoveAt(@, i)]
    /\ activeLineId' = IF endedCalls(player.orphans[i]) = 1 THEN NoId ELSE activeLineId
    /\ resumed' = NoResume
    /\ UNCHANGED <<now, appRest>>

\* ------------------------------------------------------ audio generator
\* generateAudioFromScript of the generation service.  A response of the
\* remote model either resolves, with or without inline audio data, or
\* rejects with an error that may carry "429" in its message, the status
\* 429, or RESOURCE_EXHAUSTED in its text.
NoInput == [isArray |-> FALSE, lines |-> <<>>]

\* the argument: an array of lines (their speakers), or no array at all
DialogueInputs ==
    [isArray : {TRUE}, lines : UNION {[1..n -> {"Ann", "Bob"}] : n \in 0..MaxLines}]
    \cup {NoInput}

Responses ==
    [ok : {TRUE}, data : BOOLEAN, message429 : {FALSE}, status429 : {FALSE},
     exhausted : {FALSE}]
    \cup [ok : {FALSE}, data : {FALSE}, message429 : BOOLEAN,
          status429 : BOOLEAN, exhausted : BOOLEAN]

\* new Error("No audio generated from ... model")
noAudioError ==
    [ok |-> FALSE, data |-> FALSE, message429 |-> FALSE, status429 |-> FALSE,
     exhausted |-> FALSE]

\* what the code finds in the try block: the rejection, or the error it
\* throws itself when the response has no audio data
caught(r) == IF r.ok THEN noAudioError ELSE r

isQuotaErrorByMessage(e) == e.message429 \/ e.exhausted

\* error.message?.includes('429') || error.status === 429
\*   || error.toString().includes('RESOURCE_EXHAUSTED')
isQuotaError(e) == e.message429 \/ e.status429 \/ e.exhausted

NoResponse ==
    [ok |-> TRUE, data |-> FALSE, message429 |-> FALSE, status429 |-> FALSE,
     exhausted |-> FALSE]

\* pc: "idle", "multi" (awaiting the multi-speaker response), "single"
\* (awaiting the fallback response), "returned", "threw".  requests: the
\* requests issued so far; first, second: the multi-speaker and the
\* single-speaker response; last: the response or error the call ended with.
TtsIdle ==
    [pc |-> "idle", input |-> NoInput, requests |-> <<>>, first |-> NoResponse,
     second |-> NoResponse, last |-> NoResponse]

\* ---------------------------------------------------- definition lookup
\* getWordDefinition of the generation service.  An item is what JSON.parse
\* made of the response text ("{}" when the text is empty).
Words == {"Hello", "hello", "dog"}
Items == {"d1", "d2"}
NoItem == "none"

\* word.toLowerCase()
toLowerCase(w) == IF w = "Hello" THEN "hello" ELSE w

CacheKeys == {toLowerCase(w) : w \in Words}

\* JSON.stringify(result) and JSON.parse(localStorage.getItem(key))
stringify(item) == <<item>>
parse(text) == text[1]

\* the module's start: every well-formed dailyflow_def_ entry is put into
\* the Map
hydrated(storage) ==
    [k \in CacheKeys |-> IF storage[k] = NoItem THEN NoItem ELSE parse(storage[k])]

NoLookup ==
    [word |-> NoItem, known |-> NoItem, outcome |-> "none", result |-> NoItem,
     remote |-> FALSE, persisted |-> FALSE]

InitServices ==
    /\ tts = TtsIdle
    /\ localStorage = [k \in CacheKeys |-> NoItem]
    /\ definitionCache = hydrated(localStorage)
    /\ lookups = EmptyBag
    /\ defined = [k \in CacheKeys |-> NoItem]
    /\ looked = NoLookup

\* up to the first await
generateAudioFromScript(input) ==
    IF ~input.isArray \/ Len(input.lines) = 0
    THEN [TtsIdle EXCEPT !.pc = "threw", !.input = input]
    ELSE [TtsIdle EXCEPT !.pc = "multi", !.input = input, !.requests = <<"multi">>]

\* the multi-speaker response arrives: return, rethrow, or fall back
afterMultiSpeaker(g, r) ==
    IF r.ok /\ r.data
    THEN [g EXCEPT !.pc = "returned", !.first = r, !.last = r]
    ELSE IF isQuotaError(caught(r))
         THEN [g EXCEPT !.pc = "threw", !.first = r, !.last = caught(r)]
    ELSE [g EXCEPT !.pc = "single", !.first = r,
                   !.requests = Append(g.requests, "single")]

\* the single-speaker response arrives
afterSingleSpeaker(g, r) ==
    IF r.ok /\ r.data
    THEN [g EXCEPT !.pc = "returned", !.second = r, !.last = r]
    ELSE [g EXCEPT !.pc = "threw", !.second = r, !.last = caught(r)]

\* ------------------------------------------------------------ clock spec
\* The hook on its own: its operations called in any order.
SeekTimes == -1..(MaxDur + 1)

InitApp(u) ==
    /\ script = NoId
    /\ currentScriptIdRef = NoId
    /\ isLoading = FALSE
    /\ error = FALSE
    /\ isGeneratingAudio = FALSE
    /\ activeLineId = NoId
    /\ uiCurrentTime = 0
    /\ user = u
    /\ calcArgs = NoArgs
    /\ lineTimings = <<>>
    /\ InitServices
    /\ history = IF u THEN <<>> ELSE <<2, 1>>
    /\ cache = IF u THEN {} ELSE {1}
    /\ pipes = EmptyBag
    /\ nextId = 1
    /\ genCount = 0
    /\ loadCount = 0
    /\ resumed = NoResume

Tick == advanceClock(MaxNow)

AppTick == advanceClock(MaxAppNow)

EndedCurrent ==
    /\ endedCurrent
    /\ lastEnded' = [st |-> player.sourceRef.st,
                     calls |-> endedCalls(player.sourceRef),
                     late |-> IF player.sourceRef.st = "finished"
                              THEN Min(now - player.sourceRef.endAt, Tol) ELSE 0]

EndedOrphan ==
    \E i \in 1..Len(player.orphans) :
        /\ endedOrphan(i)
        /\ lastEnded' = [st |-> player.orphans[i].st,
                         calls |-> endedCalls(player.orphans[i]), late |-> 0]

InitClock ==
    /\ player = initialPlayer
    /\ now = 0
    /\ lastEnded = NoEnded
    /\ InitApp(FALSE)

ClockLoad ==
    /\ \E b \in ClockPayloads : player' = loadAudio(player, b)
    /\ resumed' = NoResume
    /\ UNCHANGED <<now, lastEnded, appVars>>

\* await loadAudio(base64): the caller sees whether the promise rejected
ClockLoadAwaited ==
    /\ \E b \in ClockPayloads :
          /\ player' = loadAudio(player, b)
          /\ resumed' = IF b.ok THEN NoResume
                        ELSE [sid |-> NoId, outcome |-> "load", decoded |-> FALSE]
    /\ UNCHANGED <<now, lastEnded, appVars>>

ClockPlay ==
    /\ Room
    /\ \E cb \in BOOLEAN : player' = play(player, cb, now)
    /\ resumed' = NoResume
    /\ UNCHANGED <<now, lastEnded, appVars>>

ClockPause ==
    /\ Room
    /\ player' = pause(player, now)
    /\ resumed' = NoResume
    /\ UNCHANGED <<now, lastEnded, appVars>>

ClockStop ==
    /\ Room
    /\ player' = stop(player)
    /\ resumed' = NoResume
    /\ UNCHANGED <<now, lastEnded, appVars>>

ClockReset ==
    /\ Room
    /\ player' = reset(player)
    /\ resumed' = NoResume
    /\ UNCHANGED <<now, lastEnded, appVars>>

ClockSeek ==
    /\ Room
    /\ \E time \in SeekTimes, cb \in BOOLEAN : player' = seek(player, time, cb, now)
    /\ resumed' = NoResume
    /\ UNCHANGED <<now, lastEnded, appVars>>

ClockPauseSeek ==
    /\ Room
    /\ \E time \in SeekTimes, cb \in BOOLEAN :
          player' = pauseSeek(player, time, cb, now)
    /\ resumed' = NoResume
    /\ UNCHANGED <<now, lastEnded, appVars>>

NextClock ==
    \/ Tick
    \/ EndedCurrent
    \/ EndedOrphan
    \/ ClockLoad
    \/ ClockPlay
    \/ ClockPause
    \/ ClockStop
    \/ ClockReset
    \/ ClockSeek

SpecClock == InitClock /\ [][NextClock]_vars

\* the hook driven by handlers that may call two operations
NextClockHandlers ==
    \/ NextClock
    \/ ClockPauseSeek

SpecClockHandlers == InitClock /\ [][NextClockHandlers]_vars

\* the hook driven by a caller that awaits each load, over the shorter
\* stretch of time of the orchestrator
NextClockAwaited ==
    \/ AppTick
    \/ EndedCurrent
    \/ EndedOrphan
    \/ ClockLoadAwaited
    \/ ClockPlay
    \/ ClockPause
    \/ ClockStop
    \/ ClockReset
    \/ ClockSeek

SpecClockAwaited == InitClock /\ [][NextClockAwaited]_vars

\* ----------------------------------------------------------- timing spec
\* calculateTimings on its own: one call for each script and duration.
InitTimings ==
    /\ player = initialPlayer
    /\ now = 0
    /\ lastEnded = NoEnded
    /\ script = NoId /\ currentScriptIdRef = NoId
    /\ isLoading = FALSE /\ error = FALSE /\ isGeneratingAudio = FALSE
    /\ activeLineId = NoId /\ uiCurrentTime = 0
    /\ user = FALSE /\ history = <<>> /\ cache = {}
    /\ pipes = EmptyBag /\ nextId = 1 /\ genCount = 0 /\ loadCount = 0
    /\ resumed = NoResume
    /\ calcArgs \in TimingArgs
    /\ lineTimings = <<>>
    /\ InitServices

\* calculateTimings has returned and its table is in lineTimings
Calculated == [sid |-> NoId, outcome |-> "timings", decoded |-> TRUE]

\* setLineTimings(timings)
CalculateTimings ==
    /\ resumed = NoResume
    /\ lineTimings' = calculateTimings(calcArgs.lines, calcArgs.dur)
    /\ resumed' = Calculated
    /\ UNCHANGED <<clockVars, script, currentScriptIdRef, isLoading, error,
                   isGeneratingAudio, activeLineId, uiCurrentTime, user,
                   history, cache, pipes, nextId, genCount, loadCount,
                   calcArgs, serviceVars>>

NextTimings == CalculateTimings

SpecTimings == InitTimings /\ [][NextTimings]_vars

\* ----------------------------------------------------------- orchestrator
\* A suspended async function: handleGenerate awaiting generateDailyScript
\* (pc "script", no id yet), or loadAudioForScript awaiting getAudioFromCache
\* ("cacheGet"), generateAudioFromScript ("audioGen") or saveAudioToCache
\* ("cachePut") for targetScript.id = sid.
pipe(sid, pc) == [sid |-> sid, pc |-> pc]
addPipe(b, r) == b (+) SetToBag({r})
delPipe(b, r) == b (-) SetToBag({r})
Suspended(pc) == {r \in BagToSet(pipes) : r.pc = pc}
SlotFree == BagCardinality(pipes) < MaxPipes

RECURSIVE sortDesc(_)
sortDesc(S) ==
    IF S = {} THEN <<>>
    ELSE LET m == CHOOSE x \in S : \A y \in S : y <= x
         IN <<m>> \o sortDesc(S \ {m})

idsOf(h) == {h[k] : k \in 1..Len(h)}
removeId(h, id) == SelectSeq(h, LAMBDA x : x # id)

\* the race-condition checks of loadAudioForScript: 2 after the cache fetch,
\* 3 after the API generation, 4 before loading into the player
afterCacheFetch(sid) == currentScriptIdRef = sid

afterGenerationUnchecked(sid) == TRUE

afterGeneration(sid) == currentScriptIdRef = sid

beforeLoadUnchecked(sid) == TRUE

beforeLoad(sid) == currentScriptIdRef = sid

needsGenerationAlways(found) == TRUE

\* if (!audioBase64): the generator is called when the lookup gave nothing
needsGeneration(found) == ~found

\* deleteAudioFromCache
cacheDelete(c, sid) == c \ {sid}

\* saveAudioToCache: best effort, the entry is kept unless the storage
\* write fails, and the caller is not failed either way
cachePut(c, sid, stored) == IF stored THEN c \cup {sid} ELSE c

loadIntoPlayerFromCache(sid, ok) ==
    /\ player' = IF sid \in cache THEN loadAudio(player, [sid |-> sid, ok |-> ok])
                 ELSE player
    /\ isGeneratingAudio' = IF ok /\ sid \in cache THEN FALSE ELSE isGeneratingAudio
    /\ loadCount' = loadCount + 1

loadIntoPlayerKeepsFlag(sid, ok) ==
    /\ player' = loadAudio(player, [sid |-> sid, ok |-> ok])
    /\ isGeneratingAudio' = isGeneratingAudio
    /\ loadCount' = loadCount + 1

loadIntoPlayerFinally(sid, ok) ==
    /\ player' = loadAudio(player, [sid |-> sid, ok |-> ok])
    /\ isGeneratingAudio' = FALSE
    /\ loadCount' = loadCount + 1

\* await loadAudio(audioBase64), setIsGeneratingAudio(false); a decode error
\* is swallowed by the catch and leaves the flag set
loadIntoPlayer(sid, ok) ==
    /\ player' = loadAudio(player, [sid |-> sid, ok |-> ok])
    /\ isGeneratingAudio' = IF ok THEN FALSE ELSE isGeneratingAudio
    /\ loadCount' = loadCount + 1

\* saveToHistory.  Signed in, the entry is written to the cloud collection
\* and the onSnapshot listener replaces the list, newest first; signed out
\* it is prepended to the local list.
saveToHistoryAlways(h, id) ==
    IF user THEN sortDesc(idsOf(h) \cup {id})
    ELSE <<id>> \o h

saveToHistory(h, id) ==
    IF id \in idsOf(h) THEN h
    ELSE IF user THEN sortDesc(idsOf(h) \cup {id})
    ELSE <<id>> \o h

handleStopSessionKeepsToken ==
    /\ currentScriptIdRef' = currentScriptIdRef
    /\ script' = NoId
    /\ player' = reset(stop(player))
    /\ activeLineId' = NoId
    /\ uiCurrentTime' = 0
    /\ isGeneratingAudio' = FALSE

handleStopSession ==
    /\ currentScriptIdRef' = NoId
    /\ script' = NoId
    /\ player' = reset(stop(player))
    /\ activeLineId' = NoId
    /\ uiCurrentTime' = 0
    /\ isGeneratingAudio' = FALSE

HandleGenerateKeepsAudio ==
    /\ user /\ script = NoId /\ ~isLoading /\ ~error
    /\ SlotFree /\ Room
    /\ isLoading' = TRUE
    /\ error' = FALSE
    /\ player' = IF player.isPlaying THEN pause(player, now) ELSE player
    /\ currentScriptIdRef' = NoId
    /\ activeLineId' = NoId
    /\ uiCurrentTime' = 0
    /\ isGeneratingAudio' = FALSE
    /\ pipes' = addPipe(pipes, pipe(NoId, "script"))
    /\ genCount' = 0 /\ loadCount' = 0
    /\ resumed' = NoResume
    /\ UNCHANGED <<now, lastEnded, script, user, timingVars, history, cache, nextId>>

\* The Start Session button is rendered while no script is shown, no script
\* is being written and no error is shown, and calls handleGenerate only
\* for a signed-in user.
HandleGenerate ==
    /\ user /\ script = NoId /\ ~isLoading /\ ~error
    /\ SlotFree /\ Room
    /\ isLoading' = TRUE
    /\ error' = FALSE
    /\ player' = reset(IF player.isPlaying THEN pause(player, now) ELSE player)
    /\ currentScriptIdRef' = NoId
    /\ activeLineId' = NoId
    /\ uiCurrentTime' = 0
    /\ isGeneratingAudio' = FALSE
    /\ pipes' = addPipe(pipes, pipe(NoId, "script"))
    /\ genCount' = 0 /\ loadCount' = 0
    /\ resumed' = NoResume
    /\ UNCHANGED <<now, lastEnded, script, user, timingVars, history, cache, nextId>>

\* generateDailyScript resolved: the id is minted, the script shown, the
\* token set, and loadAudioForScript runs up to its cache lookup
ScriptDone ==
    /\ Suspended("script") # {}
    /\ nextId <= MaxId
    /\ script' = nextId
    /\ currentScriptIdRef' = nextId
    /\ nextId' = nextId + 1
    /\ isLoading' = FALSE
    /\ isGeneratingAudio' = TRUE
    /\ pipes' = addPipe(delPipe(pipes, pipe(NoId, "script")), pipe(nextId, "cacheGet"))
    /\ genCount' = 0 /\ loadCount' = 0
    /\ resumed' = [sid |-> nextId, outcome |-> "script", decoded |-> TRUE]
    /\ UNCHANGED <<clockVars, error, activeLineId, uiCurrentTime, user, timingVars,
                   history, cache>>

ScriptFailRetried ==
    /\ Suspended("script") # {}
    /\ error' = TRUE
    /\ isLoading' = FALSE
    /\ resumed' = [sid |-> NoId, outcome |-> "scriptFailed", decoded |-> TRUE]
    /\ UNCHANGED <<clockVars, script, currentScriptIdRef, isGeneratingAudio,
                   activeLineId, uiCurrentTime, user, timingVars, history, cache,
                   pipes, nextId, genCount, loadCount>>

\* generateDailyScript rejected
ScriptFail ==
    /\ Suspended("script") # {}
    /\ error' = TRUE
    /\ isLoading' = FALSE
    /\ pipes' = delPipe(pipes, pipe(NoId, "script"))
    /\ resumed' = [sid |-> NoId, outcome |-> "scriptFailed", decoded |-> TRUE]
    /\ UNCHANGED <<clockVars, script, currentScriptIdRef, isGeneratingAudio,
                   activeLineId, uiCurrentTime, user, timingVars, history, cache,
                   nextId, genCount, loadCount>>

\* a continuation that finds the token changed returns at once
discard(r) ==
    /\ pipes' = delPipe(pipes, r)
    /\ resumed' = [sid |-> r.sid, outcome |-> "stale", decoded |-> TRUE]

\* getAudioFromCache resolved.  The cache answers with the entry ("hit"),
\* with nothing when there is none ("miss"), or with nothing although there
\* is one, when the storage layer failed ("error").
CacheGetDone ==
    \E r \in Suspended("cacheGet"), answer \in {"hit", "miss", "error"}, ok \in BOOLEAN :
        /\ answer = "miss" <=> r.sid \notin cache
        /\ IF ~afterCacheFetch(r.sid)
           THEN /\ answer # "error" /\ ok
                /\ discard(r)
                /\ UNCHANGED <<player, isGeneratingAudio, genCount, loadCount>>
           ELSE IF needsGeneration(answer = "hit")
           THEN /\ ok
                /\ pipes' = addPipe(delPipe(pipes, r), pipe(r.sid, "audioGen"))
                /\ genCount' = genCount + 1
                /\ resumed' = [sid |-> r.sid, outcome |-> answer, decoded |-> TRUE]
                /\ UNCHANGED <<player, isGeneratingAudio, loadCount>>
           ELSE IF ~beforeLoad(r.sid)
           THEN /\ ok
                /\ discard(r)
                /\ UNCHANGED <<player, isGeneratingAudio, genCount, loadCount>>
           ELSE /\ loadIntoPlayer(r.sid, ok)
                /\ pipes' = delPipe(pipes, r)
                /\ resumed' = [sid |-> r.sid, outcome |-> answer, decoded |-> ok]
                /\ UNCHANGED genCount
        /\ UNCHANGED <<now, lastEnded, script, currentScriptIdRef, isLoading, error,
                       activeLineId, uiCurrentTime, user, timingVars, history, cache, nextId>>

\* generateAudioFromScript resolved with a payload; when the session is
\* still current saveAudioToCache is called, whose write may fail without
\* failing the call
AudioGenDone ==
    \E r \in Suspended("audioGen"), stored \in BOOLEAN :
        /\ IF ~afterGeneration(r.sid)
           THEN /\ stored
                /\ discard(r)
                /\ UNCHANGED cache
           ELSE /\ pipes' = addPipe(delPipe(pipes, r), pipe(r.sid, "cachePut"))
                /\ cache' = cachePut(cache, r.sid, stored)
                /\ resumed' = [sid |-> r.sid,
                               outcome |-> IF stored THEN "generated" ELSE "putFailed",
                               decoded |-> TRUE]
        /\ UNCHANGED <<clockVars, script, currentScriptIdRef, isLoading, error,
                       isGeneratingAudio, activeLineId, uiCurrentTime, user, timingVars,
                       history, nextId, genCount, loadCount>>

\* generateAudioFromScript rejected: the catch logs, when the session is
\* still current, and leaves every flag as it was
AudioGenFail ==
    \E r \in Suspended("audioGen") :
        /\ pipes' = delPipe(pipes, r)
        /\ resumed' = [sid |-> r.sid,
                       outcome |-> IF currentScriptIdRef = r.sid THEN "genFailed" ELSE "stale",
                       decoded |-> TRUE]
        /\ UNCHANGED <<clockVars, script, currentScriptIdRef, isLoading, error,
                       isGeneratingAudio, activeLineId, uiCurrentTime, user, timingVars,
                       history, cache, nextId, genCount, loadCount>>

\* saveAudioToCache resolved
CachePutDone ==
    \E r \in Suspended("cachePut"), ok \in BOOLEAN :
        /\ IF ~beforeLoad(r.sid)
           THEN /\ ok
                /\ discard(r)
                /\ UNCHANGED <<player, isGeneratingAudio, loadCount>>
           ELSE /\ loadIntoPlayer(r.sid, ok)
                /\ pipes' = delPipe(pipes, r)
                /\ resumed' = [sid |-> r.sid, outcome |-> "saved", decoded |-> ok]
        /\ UNCHANGED <<now, lastEnded, script, currentScriptIdRef, isLoading, error,
                       activeLineId, uiCurrentTime, user, timingVars, history, cache,
                       nextId, genCount>>

HandleSelectHistoryAgain ==
    \E item \in idsOf(history) :
             /\ SlotFree /\ Room
             /\ player' = reset(stop(player))
             /\ currentScriptIdRef' = item
             /\ activeLineId' = NoId
             /\ uiCurrentTime' = 0
             /\ script' = item
             /\ isGeneratingAudio' = TRUE
             /\ pipes' = addPipe(pipes, pipe(item, "cacheGet"))
             /\ genCount' = 0 /\ loadCount' = 0
             /\ resumed' = NoResume
             /\ UNCHANGED <<now, lastEnded, isLoading, error, user, timingVars, history,
                            cache, nextId>>

\* a click on an entry of the history drawer
HandleSelectHistory ==
    \E item \in idsOf(history) :
        IF script = item
        THEN resumed' = NoResume /\ UNCHANGED <<clockVars, appVars>>
        ELSE /\ SlotFree /\ Room
             /\ player' = reset(stop(player))
             /\ currentScriptIdRef' = item
             /\ activeLineId' = NoId
             /\ uiCurrentTime' = 0
             /\ script' = item
             /\ isGeneratingAudio' = TRUE
             /\ pipes' = addPipe(pipes, pipe(item, "cacheGet"))
             /\ genCount' = 0 /\ loadCount' = 0
             /\ resumed' = NoResume
             /\ UNCHANGED <<now, lastEnded, isLoading, error, user, timingVars, history,
                            cache, nextId>>

HandleCompleteKeepsToken ==
    /\ script # NoId
    /\ Room
    /\ history' = saveToHistory(history, script)
    /\ player' = stop(player)
    /\ script' = NoId
    /\ currentScriptIdRef' = currentScriptIdRef
    /\ activeLineId' = NoId
    /\ uiCurrentTime' = 0
    /\ isGeneratingAudio' = FALSE
    /\ genCount' = 0 /\ loadCount' = 0
    /\ resumed' = NoResume
    /\ UNCHANGED <<now, lastEnded, isLoading, error, user, timingVars, cache, pipes, nextId>>

\* the Done button of Controls, rendered while a script is shown
HandleComplete ==
    /\ script # NoId
    /\ Room
    /\ history' = saveToHistory(history, script)
    /\ player' = stop(player)
    /\ script' = NoId
    /\ currentScriptIdRef' = NoId
    /\ activeLineId' = NoId
    /\ uiCurrentTime' = 0
    /\ isGeneratingAudio' = FALSE
    /\ genCount' = 0 /\ loadCount' = 0
    /\ resumed' = NoResume
    /\ UNCHANGED <<now, lastEnded, isLoading, error, user, timingVars, cache, pipes, nextId>>

\* deleteFromHistory, and handleStopSession when the entry is the one
\* shown; signed in, the onSnapshot listener replaces the list
DeleteFromHistory ==
    \E id \in idsOf(history) :
        /\ Room
        /\ cache' = cacheDelete(cache, id)
        /\ history' = removeId(history, id)
        /\ IF script = id
           THEN handleStopSession /\ genCount' = 0 /\ loadCount' = 0
           ELSE UNCHANGED <<currentScriptIdRef, script, player, activeLineId,
                            uiCurrentTime, isGeneratingAudio, genCount, loadCount>>
        /\ resumed' = NoResume
        /\ UNCHANGED <<now, lastEnded, isLoading, error, user, timingVars, pipes, nextId>>

playPauseBlockedWhileLoading == player.isLoading

\* if (isAudioLoading || isGeneratingAudio) return
playPauseBlocked == player.isLoading \/ isGeneratingAudio

\* the play button of Controls and the space key, both live only while a
\* script is shown
HandlePlayPause ==
    /\ script # NoId
    /\ Room
    /\ player' = IF playPauseBlocked THEN player
                 ELSE IF player.isPlaying THEN pause(player, now)
                 ELSE play(player, TRUE, now)
    /\ resumed' = IF player.isLoading \/ isGeneratingAudio
                  THEN [sid |-> NoId, outcome |-> "ignored", decoded |-> TRUE]
                  ELSE NoResume
    /\ UNCHANGED <<now, lastEnded, appVars>>

\* the range input of Controls: 0 .. duration, or 0 .. 100 s while no
\* duration is known; an interior position and one past every duration
SliderTimes == {t \in {2, MaxDur + 1} : player.duration = 0 \/ t <= player.duration}

HandleSeek ==
    /\ script # NoId
    /\ Room
    /\ \E time \in SliderTimes :
        /\ player' = seek(player, time, TRUE, now)
        /\ uiCurrentTime' = time
    /\ resumed' = NoResume
    /\ UNCHANGED <<now, lastEnded, script, currentScriptIdRef, isLoading, error,
                   isGeneratingAudio, activeLineId, user, timingVars, history, cache,
                   pipes, nextId, genCount, loadCount>>

DismissError ==
    /\ error
    /\ error' = FALSE
    /\ resumed' = NoResume
    /\ UNCHANGED <<clockVars, script, currentScriptIdRef, isLoading,
                   isGeneratingAudio, activeLineId, uiCurrentTime, user, timingVars, history,
                   cache, pipes, nextId, genCount, loadCount>>

AppEndedCurrent == endedCurrent /\ UNCHANGED lastEnded

AppEndedOrphan ==
    \E i \in 1..Len(player.orphans) : endedOrphan(i) /\ UNCHANGED lastEnded

Init ==
    /\ player = initialPlayer
    /\ now = 0
    /\ lastEnded = NoEnded
    /\ \E u \in BOOLEAN : InitApp(u)

Next ==
    \/ AppTick
    \/ AppEndedCurrent
    \/ AppEndedOrphan
    \/ HandleGenerate
    \/ ScriptDone
    \/ ScriptFail
    \/ CacheGetDone
    \/ AudioGenDone
    \/ AudioGenFail
    \/ CachePutDone
    \/ HandleSelectHistory
    \/ HandleComplete
    \/ DeleteFromHistory
    \/ HandlePlayPause
    \/ HandleSeek
    \/ DismissError

Spec == Init /\ [][Next]_vars

\* The sessions and their acquisitions on their own: the handlers that start,
\* select, end and delete sessions, the play button, the completions of the
\* external calls and the ended events of halted nodes, with the AudioContext
\* clock standing still and the slider left alone.  Neither the token, the
\* script shown, the cache, nor the clock's buffer and duration is written by
\* a step that reads the hardware clock.
NextSession ==
    \/ AppEndedOrphan
    \/ HandleGenerate
    \/ ScriptDone
    \/ ScriptFail
    \/ CacheGetDone
    \/ AudioGenDone
    \/ AudioGenFail
    \/ CachePutDone
    \/ HandleSelectHistory
    \/ HandleComplete
    \/ DeleteFromHistory
    \/ HandlePlayPause
    \/ DismissError

SpecSession == Init /\ [][NextSession]_vars

\* ------------------------------------------------------ one acquisition
\* A session is started, selected or completed only while no call is
\* outstanding, and every external call returns successfully: the script,
\* the cache lookup (an entry or none), the audio, the cache write (stored
\* or not) and the decode.
quiet == pipes = EmptyBag

returned == resumed'.decoded /\ resumed'.outcome # "error"

AcquireStart == quiet /\ nextId <= MaxId /\ HandleGenerate

AcquireSelect == quiet /\ HandleSelectHistory

AcquireComplete == quiet /\ HandleComplete

CacheGetReturned == CacheGetDone /\ returned

CachePutReturned == CachePutDone /\ returned

NextAcquire ==
    \/ AcquireStart
    \/ AcquireSelect
    \/ AcquireComplete
    \/ HandlePlayPause
    \/ ScriptDone
    \/ CacheGetReturned
    \/ AudioGenDone
    \/ CachePutReturned

\* each promise is settled, and its continuation run, by the event loop
SpecAcquire ==
    /\ Init
    /\ [][NextAcquire]_vars
    /\ WF_vars(ScriptDone)
    /\ WF_vars(CacheGetReturned)
    /\ WF_vars(AudioGenDone)
    /\ WF_vars(CachePutReturned)

\* ------------------------------------------------- audio generator spec
serviceRest == <<clockVars, script, currentScriptIdRef, isLoading, error,
                 isGeneratingAudio, activeLineId, uiCurrentTime, user, calcArgs,
                 lineTimings, history, cache, pipes, nextId, genCount, loadCount,
                 resumed>>
lookupVars == <<definitionCache, localStorage, lookups, defined, looked>>

GenerateAudioFromScript ==
    /\ tts.pc = "idle"
    /\ \E input \in DialogueInputs : tts' = generateAudioFromScript(input)
    /\ UNCHANGED <<serviceRest, lookupVars>>

MultiSpeakerResponds ==
    /\ tts.pc = "multi"
    /\ \E r \in Responses : tts' = afterMultiSpeaker(tts, r)
    /\ UNCHANGED <<serviceRest, lookupVars>>

SingleSpeakerResponds ==
    /\ tts.pc = "single"
    /\ \E r \in Responses : tts' = afterSingleSpeaker(tts, r)
    /\ UNCHANGED <<serviceRest, lookupVars>>

NextSynthesis ==
    \/ GenerateAudioFromScript
    \/ MultiSpeakerResponds
    \/ SingleSpeakerResponds

SpecSynthesis == Init /\ [][NextSynthesis]_vars

\* ----------------------------------------------- definition lookup spec
firstResult(k, item) ==
    IF defined[k] = NoItem THEN [defined EXCEPT ![k] = item] ELSE defined

\* getWordDefinition(word, contextSentence) up to its return from the Map
\* or its await; the context sentence goes into the prompt only
GetWordDefinition ==
    /\ \E word \in Words :
          LET cacheKey == toLowerCase(word)
          IN IF definitionCache[cacheKey] # NoItem
             THEN /\ looked' = [word |-> word, known |-> defined[cacheKey],
                                outcome |-> "returned",
                                result |-> definitionCache[cacheKey],
                                remote |-> FALSE, persisted |-> FALSE]
                  /\ defined' = firstResult(cacheKey, definitionCache[cacheKey])
                  /\ UNCHANGED lookups
             ELSE /\ BagCardinality(lookups) < MaxPipes
                  /\ lookups' = lookups (+) SetToBag({[word |-> word,
                                                      known |-> defined[cacheKey]]})
                  /\ UNCHANGED <<defined, looked>>
    /\ UNCHANGED <<serviceRest, tts, definitionCache, localStorage>>

\* the remote call of a suspended getWordDefinition settles: it rejects, or
\* its text does not parse, or the parsed item is put into the Map and,
\* unless setItem throws, into localStorage
DefinitionResponds ==
    /\ \E l \in BagToSet(lookups) :
          LET cacheKey == toLowerCase(l.word)
          IN /\ lookups' = lookups (-) SetToBag({l})
             /\ \/ /\ looked' = [word |-> l.word, known |-> l.known,
                                 outcome |-> "threw", result |-> NoItem,
                                 remote |-> TRUE, persisted |-> FALSE]
                   /\ UNCHANGED <<definitionCache, localStorage, defined>>
                \/ \E result \in Items, stored \in BOOLEAN :
                      /\ definitionCache' = [definitionCache EXCEPT ![cacheKey] = result]
                      /\ localStorage' =
                            IF stored
                            THEN [localStorage EXCEPT ![cacheKey] = stringify(result)]
                            ELSE localStorage
                      /\ looked' = [word |-> l.word, known |-> l.known,
                                    outcome |-> "returned", result |-> result,
                                    remote |-> TRUE, persisted |-> stored]
                      /\ defined' = firstResult(cacheKey, result)
    /\ UNCHANGED <<serviceRest, tts>>

\* the page is loaded again: the module starts anew and the suspended calls
\* are gone
Reload ==
    /\ definitionCache' = hydrated(localStorage)
    /\ lookups' = EmptyBag
    /\ defined' = [k \in CacheKeys |-> NoItem]
    /\ looked' = NoLookup
    /\ UNCHANGED <<serviceRest, tts, localStorage>>

NextLookup ==
    \/ GetWordDefinition
    \/ DefinitionResponds
    \/ Reload

SpecLookup == Init /\ [][NextLookup]_vars

\* ------------------------------------------------- sampling loop spec
\* The timing table in the app: history entry 1 has two lines of equal
\* length and entry 2 a long line and two short ones, so that every range
\* starts on a whole tick.

\* t >= duration - 0.1: one tick
Epsilon == 1

\* english lengths of the lines of a session; the line ids are 1, 2, ...
linesOf(sid) == IF sid % 2 = 1 THEN <<3, 3>> ELSE <<10, 0, 0>>

\* a time in ticks as a number of the table, and back (the clock counts
\* whole ticks)
asNumber(t) == roundTo(t, 1, 0)
ticksOf(x) == IF x.e >= 0 THEN x.m * 2^x.e ELSE x.m \div 2^(-x.e)

\* the arguments the effect on [duration, script] calls calculateTimings with
timingArgs == [lines |-> linesOf(script), dur |-> asNumber(player.duration)]

\* the effect has to run: script and duration are set and are not what the
\* table was last computed from
timingsDue == script # NoId /\ player.duration > 0 /\ calcArgs # timingArgs

\* if (script && duration > 0) calculateTimings(script, duration)
TimingsEffect ==
    /\ timingsDue
    /\ calcArgs' = timingArgs
    /\ lineTimings' = calculateTimings(timingArgs.lines, timingArgs.dur)
    /\ resumed' = NoResume
    /\ UNCHANGED <<clockVars, script, currentScriptIdRef, isLoading, error,
                   isGeneratingAudio, activeLineId, uiCurrentTime, user, serviceVars,
                   history, cache, pipes, nextId, genCount, loadCount>>

\* lineTimings.find(...): the first of the indices of the entries that
\* satisfy the test, 0 if there is none
find(matching) ==
    IF matching = {} THEN 0
    ELSE CHOOSE i \in matching : \A j \in matching : i <= j

\* t >= l.start && t < l.end
contains(l, t) == fleq(l.start, asNumber(t)) /\ ~fleq(l.end, asNumber(t))

\* updateLoop has run
Sampled == [sid |-> NoId, outcome |-> "sampled", decoded |-> TRUE]

UpdateLoopEveryTick ==
    /\ player.isPlaying
    /\ LET t == getCurrentTime(player, now)
           active == find({i \in 1..Len(lineTimings) : contains(lineTimings[i], t)})
       IN /\ uiCurrentTime' = t
          /\ activeLineId' =
                IF Len(lineTimings) > 0 /\ active # 0 THEN lineTimings[active].id
                ELSE IF Len(lineTimings) > 0 /\ t >= player.duration - Epsilon
                     THEN NoId
                ELSE activeLineId
    /\ resumed' = Sampled
    /\ UNCHANGED <<clockVars, script, currentScriptIdRef, isLoading, error,
                   isGeneratingAudio, user, timingVars, history, cache, pipes,
                   nextId, genCount, loadCount>>

\* updateLoop, run by requestAnimationFrame while isPlaying
UpdateLoop ==
    /\ player.isPlaying
    /\ LET t == getCurrentTime(player, now)
           active == find({i \in 1..Len(lineTimings) : contains(lineTimings[i], t)})
       IN IF Len(lineTimings) > 0 /\ active # 0
             /\ lineTimings[active].id # activeLineId
          THEN /\ activeLineId' = lineTimings[active].id
               /\ uiCurrentTime' = t
          ELSE IF Len(lineTimings) > 0 /\ active = 0
                  /\ t >= player.duration - Epsilon /\ activeLineId # NoId
          THEN /\ activeLineId' = NoId
               /\ uiCurrentTime' = player.duration
          ELSE UNCHANGED <<activeLineId, uiCurrentTime>>
    /\ resumed' = Sampled
    /\ UNCHANGED <<clockVars, script, currentScriptIdRef, isLoading, error,
                   isGeneratingAudio, user, timingVars, history, cache, pipes,
                   nextId, genCount, loadCount>>

\* a line of the transcript is clicked: handleLineJump(lineId), which calls
\* handleSeek(timing.start)
HandleLineJump ==
    /\ script # NoId
    /\ Room
    /\ \E lineId \in 1..Len(linesOf(script)) :
          LET timing == find({i \in 1..Len(lineTimings) : lineTimings[i].id = lineId})
          IN IF timing # 0
             THEN /\ player' = seek(player, ticksOf(lineTimings[timing].start),
                                    TRUE, now)
                  /\ uiCurrentTime' = ticksOf(lineTimings[timing].start)
                  /\ activeLineId' = lineId
             ELSE UNCHANGED <<player, uiCurrentTime, activeLineId>>
    /\ resumed' = NoResume
    /\ UNCHANGED <<now, lastEnded, script, currentScriptIdRef, isLoading, error,
                   isGeneratingAudio, user, timingVars, history, cache, pipes,
                   nextId, genCount, loadCount>>

\* React runs the effect after the render that changed script or duration
\* and before it handles the next event.  History entries are selected one
\* acquisition at a time.
NextSampler ==
    \/ TimingsEffect
    \/ ~timingsDue /\ UpdateLoop
    \/ ~timingsDue /\ HandleLineJump
    \/ ~timingsDue /\ AppTick
    \/ ~timingsDue /\ AppEndedCurrent
    \/ ~timingsDue /\ AppEndedOrphan
    \/ ~timingsDue /\ AcquireSelect
    \/ ~timingsDue /\ CacheGetReturned
    \/ ~timingsDue /\ AudioGenDone
    \/ ~timingsDue /\ CachePutReturned
    \/ ~timingsDue /\ HandlePlayPause

SpecSampler == Init /\ [][NextSampler]_vars

\* ------------------------------------------------- stale continuations
\* a continuation of loadAudioForScript that resumes in this step although
\* the token no longer names its session
staleResume(r) ==
    /\ r.pc # "script"
    /\ r.sid # currentScriptIdRef
    /\ CopiesIn(r, pipes') < CopiesIn(r, pipes)

\* C1: a continuation of the acquisition pipeline (after the cache lookup,
\* the audio generation, the cache write) whose captured id differs from the
\* token when it resumes only ends: no generator call, no cache write, no
\* load, and the flags, script, active line and progress time are unchanged.
C1_StaleContinuationInert ==
    [][\A r \in BagToSet(pipes) : staleResume(r) =>
          /\ pipes' = delPipe(pipes, r)
          /\ UNCHANGED <<player, cache, genCount, loadCount, isLoading,
                         isGeneratingAudio, script, currentScriptIdRef,
                         activeLineId, uiCurrentTime, history, error>>]_vars

C1_Witness ==
    /\ resumed.outcome = "stale"
    /\ resumed.sid # currentScriptIdRef
    /\ currentScriptIdRef # NoId

\* C2: once a session minted by a later handleGenerate is current, has its
\* audio loaded, and every pipeline, also that of the earlier session, has
\* run to completion, the session shown is the later one and the clock holds
\* its audio and its duration.
C2_NewestStartWins ==
    (/\ currentScriptIdRef # NoId
     /\ currentScriptIdRef \notin idsOf(history)
     /\ nextId > 2
     /\ pipes = EmptyBag
     /\ ~isGeneratingAudio)
    => (/\ currentScriptIdRef = nextId - 1
        /\ script = currentScriptIdRef
        /\ player.bufferRef = currentScriptIdRef
        /\ player.duration = DurOf(currentScriptIdRef))

C2_Witness ==
    /\ resumed = [sid |-> 1, outcome |-> "stale", decoded |-> TRUE]
    /\ currentScriptIdRef = 2
    /\ 2 \notin idsOf(history)
    /\ pipes = EmptyBag
    /\ ~isGeneratingAudio
    /\ player.bufferRef = 2

\* C3: with history entry Y selected after entry X, once Y's audio is loaded
\* and every pipeline has run to completion the session shown is Y and the
\* clock holds Y's audio; the late result of X's cache lookup or audio
\* generation changes neither the clock's buffer, its duration nor its
\* offsets.
C3_LaterSelectionWins ==
    /\ []((/\ currentScriptIdRef \in idsOf(history)
           /\ pipes = EmptyBag
           /\ ~isGeneratingAudio)
          => (/\ script = currentScriptIdRef
              /\ player.bufferRef = currentScriptIdRef
              /\ player.duration = DurOf(currentScriptIdRef)))
    /\ [][\A r \in BagToSet(pipes) :
            (staleResume(r) /\ r.pc \in {"cacheGet", "audioGen"}) =>
                /\ player'.bufferRef = player.bufferRef
                /\ player'.duration = player.duration
                /\ player'.pauseTimeRef = player.pauseTimeRef
                /\ player'.startTimeRef = player.startTimeRef]_vars

C3_Witness ==
    /\ resumed.outcome = "stale"
    /\ resumed.sid \in idsOf(history)
    /\ currentScriptIdRef \in idsOf(history) \ {resumed.sid}
    /\ script = currentScriptIdRef
    /\ pipes = EmptyBag
    /\ player.bufferRef = currentScriptIdRef

\* C4: whenever a session is shown and the clock has a buffer or plays, the
\* buffer, and the buffer of the running output node, is the audio of the
\* session shown, which is the session the token names.
C4_ClockHoldsDisplayedAudio ==
    (script # NoId /\ (player.bufferRef # NoBuf \/ player.isPlaying))
    => (/\ script = currentScriptIdRef
        /\ player.bufferRef \in {NoBuf, script}
        /\ player.sourceRef.st = "running" => player.sourceRef.buf = script)

\* C5: while a session is current the audio generator is called at most
\* once for it and loadAudio at most once.
C5_OneLoadPerSession == genCount <= 1 /\ loadCount <= 1

\* C6 as claimed: the generator is never called for a session of the
\* history that has a cache entry.
C6_CachedNeverGenerates ==
    (resumed.outcome \in {"miss", "error"} /\ resumed.sid \in idsOf(history))
    => resumed.sid \notin cache

\* C6, amended: when the cache lookup returns the entry, the step calls
\* loadAudio with it and calls no generator.
C6_HitSkipsGenerator ==
    [][resumed'.outcome = "hit" =>
          /\ genCount' = genCount
          /\ loadCount' = loadCount + 1
          /\ Suspended("audioGen")' \subseteq Suspended("audioGen")
          /\ player'.bufferRef \in {player.bufferRef, resumed'.sid}]_vars

C6_Witness ==
    /\ resumed.outcome = "hit"
    /\ resumed.sid \in idsOf(history)
    /\ player.bufferRef = resumed.sid
    /\ genCount = 0

\* ------------------------------------------------------- the clock alone
\* C7: the natural-end callback is not called for an output run that was
\* halted by pause, seek, stop or reset.
C7_NoCallbackOnHalt == ~(lastEnded.st = "halted" /\ lastEnded.calls = 1)

\* the ended event of the node play() started, which nothing has halted or
\* replaced since, is delivered in this step
naturalEndDelivered ==
    /\ player.sourceRef.st = "finished"
    /\ player.sourceRef.by = "play"
    /\ player'.sourceRef.st = "dead"

naturalEndEffect ==
    /\ ~player'.isPlaying
    /\ getCurrentTime(player', now') = 0
    /\ lastEnded'.calls = IF player.sourceRef.cb THEN 1 ELSE 0

C9_PlayingMeansRunning ==
    player.isPlaying =>
        /\ player.bufferRef # NoBuf
        /\ player.sourceRef.st = "running"
        /\ getCurrentTime(player, now) = now - (player.sourceRef.endAt - DurOf(player.sourceRef.buf))

\* C10: play() with nothing loaded changes nothing: isPlaying stays as it
\* was, no output node is created, the offsets are kept.
C10_PlayUnloadedNoOp ==
    [][(player.bufferRef = NoBuf /\ ClockPlay) =>
          /\ player'.isPlaying = player.isPlaying
          /\ player'.sourceRef = player.sourceRef
          /\ player'.orphans = player.orphans
          /\ player'.pauseTimeRef = player.pauseTimeRef
          /\ player'.startTimeRef = player.startTimeRef]_vars


\* the number of nodes producing output in player state p
runningNodes(p) ==
    (IF p.sourceRef.st = "running" THEN 1 ELSE 0)
    + Cardinality({i \in 1..Len(p.orphans) : p.orphans[i].st = "running"})

\* C11: after any sequence of load/play/pause/seek/stop/reset at most one
\* node is running: an operation that starts a node has halted the running
\* one first, and halting a node that has already ended changes nothing
\* (the exception of stop() is swallowed).
C11_OneRunningNode ==
    /\ runningNodes(player) <= 1
    /\ \A i \in 1..Len(player.orphans) : player.orphans[i].st # "running"
    /\ player.sourceRef.st # "running" =>
          sourceStop(player.sourceRef) = player.sourceRef
    /\ \A cb \in BOOLEAN :
          /\ runningNodes(play(player, cb, now)) <= 1
          /\ \A time \in SeekTimes : runningNodes(seek(player, time, cb, now)) <= 1

\* a second play() after the first node played to its end: the ended node
\* was halted again before the new one started
C11_Witness ==
    /\ player.sourceRef.st = "running"
    /\ player.sourceRef.by = "play"
    /\ Len(player.orphans) = 1
    /\ player.orphans[1].st = "finished"


\* C12: with audio loaded, pause(); seek(t); getCurrentTime() returns
\* min(max(t, 0), duration) exactly, isPlaying stays false and no node is
\* started: after the two calls nothing is running.
C12_PauseSeekReadsBack ==
    [][\A time \in SeekTimes, cb \in BOOLEAN :
          (/\ player.bufferRef # NoBuf
           /\ Room
           /\ player' = pauseSeek(player, time, cb, now)
           /\ now' = now)
          => /\ getCurrentTime(player', now')
                  = Min(Max(time, 0), DurOf(player.bufferRef))
             /\ ~player'.isPlaying
             /\ runningNodes(player') = 0]_vars


\* C13: after load and play(), successive getCurrentTime() calls return
\* non-decreasing values until the next pause, seek, stop or natural end:
\* while the node started by play() is running, neither the passing of
\* time nor the ended event of an earlier node moves the current time back.
C13_TimeNonDecreasing ==
    [][(/\ player.isPlaying
        /\ player.sourceRef.st = "running"
        /\ player.sourceRef.by = "play"
        /\ (Tick \/ EndedOrphan))
       => getCurrentTime(player', now') >= getCurrentTime(player, now)]_vars


\* C14: a load() that fails to decode rejects and leaves the buffer, the
\* duration, the paused offset and isPlaying as they were before the call,
\* with isLoading false again.
C14_FailedLoadKeepsState ==
    [][(ClockLoadAwaited /\ ~resumed'.decoded)
       => /\ player'.bufferRef = player.bufferRef
          /\ player'.duration = player.duration
          /\ player'.pauseTimeRef = player.pauseTimeRef
          /\ player'.isPlaying = player.isPlaying
          /\ player'.startTimeRef = player.startTimeRef
          /\ player'.sourceRef = player.sourceRef
          /\ ~player'.isLoading]_vars

\* a failed load on a clock that holds a clip paused away from its start
C14_Witness ==
    /\ resumed.outcome = "load"
    /\ ~resumed.decoded
    /\ player.bufferRef # NoBuf
    /\ player.pauseTimeRef > 0
    /\ ~player.isPlaying


\* |x - y| <= y * g / (1 - g) with g = (n + 1) * 2^-FloatBits: the bound on
\* the rounding error of n quotients, n products and n sums
withinRounding(x, y, n) ==
    LET lo == Min(x.e, y.e)
        a == x.m * 2^(x.e - lo)
        b == y.m * 2^(y.e - lo)
    IN Abs(a - b) * (2^FloatBits - (n + 1)) <= (n + 1) * b

\* the table has one entry per line, in line order, the first starts at 0
\* and each entry starts where the one before ends
timingsTile ==
    /\ Len(lineTimings) = Len(calcArgs.lines)
    /\ \A i \in 1..Len(lineTimings) :
          /\ lineTimings[i].id = i
          /\ fleq(lineTimings[i].start, lineTimings[i].end)
          /\ i < Len(lineTimings) => lineTimings[i].end = lineTimings[i + 1].start
    /\ lineTimings[1].start = Zero

\* C15 as claimed: for a non-empty line list and a duration > 0 the table
\* has one entry per line in line order, entry 0 starts at 0, each end is
\* the next start, and the last end equals the duration.
C15_TimingsEndAtDuration ==
    lineTimings # <<>> =>
        /\ timingsTile
        /\ lineTimings[Len(lineTimings)].end = calcArgs.dur

\* C15, amended: the same, the last end equal to the duration to within
\* the rounding of the floating-point operations that computed it.
C15_TimingsEndNearDuration ==
    lineTimings # <<>> =>
        /\ timingsTile
        /\ withinRounding(lineTimings[Len(lineTimings)].end, calcArgs.dur,
                          Len(lineTimings))

\* a table of three lines whose last end is not the duration
C15_Witness ==
    /\ Len(lineTimings) = 3
    /\ timingsTile
    /\ lineTimings[3].end # calcArgs.dur
    /\ lineTimings[1].end # lineTimings[2].end


\* C16: while audio is loading or the session is awaiting audio,
\* handlePlayPause is a no-op: it changes neither isPlaying nor any offset
\* of the clock, and starts or halts no node.
C16_PlayPauseGated ==
    [][(HandlePlayPause /\ (player.isLoading \/ isGeneratingAudio))
       => player' = player]_vars

\* a request ignored while the audio of the shown script is being fetched
C16_Witness ==
    /\ resumed.outcome = "ignored"
    /\ script # NoId
    /\ isGeneratingAudio
    /\ \E r \in Suspended("audioGen") : r.sid = script


\* no two entries of the list h have the same id
noDuplicate(h) == \A i, j \in 1..Len(h) : h[i] = h[j] => i = j

C18_AudioFailureSurfaces ==
    (/\ resumed.sid # NoId
     /\ resumed.sid = currentScriptIdRef
     /\ resumed.outcome = "genFailed" \/ ~resumed.decoded)
    => error /\ ~isGeneratingAudio


\* the start button is live whenever a user is signed in, no session is
\* shown, no script is being written and no error is shown
startAvailable ==
    (user /\ script = NoId /\ ~isLoading /\ ~error /\ SlotFree /\ Room)
        => ENABLED HandleGenerate

\* C19: a failed script generation is terminal for the attempt: no request
\* is issued again, the error state is set, the script-loading flag is
\* cleared and no session id is minted; the error can be dismissed, which
\* changes nothing else, and handleGenerate can then be called again.
C19_ScriptFailureTerminal ==
    [][/\ ScriptFail =>
             /\ error' /\ ~isLoading'
             /\ nextId' = nextId
             /\ script' = script /\ currentScriptIdRef' = currentScriptIdRef
             /\ BagCardinality(pipes') = BagCardinality(pipes) - 1
             /\ ~BagIn(pipe(NoId, "script"), pipes')
       /\ resumed.outcome = "scriptFailed" => ENABLED DismissError
       /\ DismissError =>
             /\ ~error'
             /\ UNCHANGED <<script, isLoading, pipes, nextId, player>>
       /\ startAvailable]_vars

\* a generation just failed: the error is shown, nothing is being written
\* and no id was minted
C19_Witness ==
    /\ resumed.outcome = "scriptFailed"
    /\ error /\ ~isLoading
    /\ script = NoId
    /\ nextId = 1
    /\ pipes = EmptyBag


readyPaused ==
    /\ script # NoId
    /\ ~isLoading /\ ~isGeneratingAudio
    /\ player.bufferRef = script
    /\ player.duration > 0
    /\ ~player.isPlaying

\* C21: when every external call returns successfully and no session is
\* started, selected or ended meanwhile, a session whose acquisition is
\* under way becomes ready and paused; as long as a call has not returned,
\* a loading indicator is on and the session is not ready.
C21_AcquisitionCompletes ==
    /\ (pipes # EmptyBag) ~> readyPaused
    /\ [](pipes # EmptyBag => (isLoading \/ isGeneratingAudio) /\ ~readyPaused)

\* a generated session has just become ready
C21_Witness ==
    /\ readyPaused
    /\ pipes = EmptyBag
    /\ resumed.outcome = "saved"
    /\ resumed.sid = script
    /\ currentScriptIdRef = script


\* the clock holds no audio: no buffer, duration 0, not playing, nothing
\* running
clockEmpty(p) ==
    /\ p.bufferRef = NoBuf
    /\ p.duration = 0
    /\ ~p.isPlaying
    /\ p.pauseTimeRef = 0
    /\ runningNodes(p) = 0

\* C22: handleGenerate sets the token to null and resets the clock in the
\* step that issues the script request, minting no id; the token becomes a
\* newly minted id only in the step that follows a successful script
\* generation, which shows the script and starts its audio acquisition;
\* the only other step that sets the token is the selection of a history
\* entry.
C22_StartInvalidatesThenMints ==
    [][/\ HandleGenerate =>
             /\ currentScriptIdRef' = NoId
             /\ clockEmpty(player')
             /\ BagIn(pipe(NoId, "script"), pipes')
             /\ nextId' = nextId
             /\ isLoading'
       /\ (/\ currentScriptIdRef' # currentScriptIdRef
           /\ currentScriptIdRef' # NoId
           /\ ~HandleSelectHistory) =>
             /\ BagIn(pipe(NoId, "script"), pipes)
             /\ currentScriptIdRef' = nextId
             /\ nextId' = nextId + 1
             /\ script' = nextId
             /\ ~isLoading'
             /\ isGeneratingAudio'
             /\ BagIn(pipe(nextId, "cacheGet"), pipes')
             /\ CopiesIn(pipe(NoId, "script"), pipes')
                  = CopiesIn(pipe(NoId, "script"), pipes) - 1]_vars

\* a second session is being written after the first was completed with
\* its audio loaded
C22_Witness ==
    /\ isLoading
    /\ BagIn(pipe(NoId, "script"), pipes)
    /\ currentScriptIdRef = NoId
    /\ clockEmpty(player)
    /\ player.contextRef
    /\ nextId = 2
    /\ 1 \in idsOf(history)


\* the entry of the session shown is deleted in this step
stopsSession ==
    script \in idsOf(history) /\ script \notin idsOf(history') /\ DeleteFromHistory

\* C23: when the history entry of the session shown is deleted, the step
\* leaves the token null, no session shown, the clock empty, the active line
\* null, the progress time 0 and the audio-loading flags false; and a
\* continuation of the acquisition of a session that is neither shown nor in
\* the history only ends when it resumes.
C23_StopSessionClearsAll ==
    [][/\ stopsSession =>
             /\ currentScriptIdRef' = NoId
             /\ script' = NoId
             /\ clockEmpty(player')
             /\ getDuration(player') = 0
             /\ activeLineId' = NoId
             /\ uiCurrentTime' = 0
             /\ ~isGeneratingAudio'
             /\ ~player'.isLoading
       /\ \A r \in BagToSet(pipes) :
             (/\ r.pc # "script"
              /\ r.sid \notin idsOf(history)
              /\ r.sid # script
              /\ CopiesIn(r, pipes') < CopiesIn(r, pipes))
             => /\ pipes' = delPipe(pipes, r)
                /\ UNCHANGED <<player, cache, genCount, loadCount, script,
                               currentScriptIdRef, isGeneratingAudio, isLoading,
                               error, activeLineId, uiCurrentTime, history>>]_vars

\* signed out, every id is in the history until it is deleted: the entry of
\* the session shown was deleted while its acquisition was pending, and the
\* acquisition has resumed since
C23_Witness ==
    /\ ~user
    /\ resumed.outcome = "stale"
    /\ resumed.sid \notin idsOf(history)
    /\ script = NoId
    /\ currentScriptIdRef = NoId
    /\ clockEmpty(player)
    /\ ~isGeneratingAudio


\* the ended event delivered in this step is that of a node that played to
\* the end of its buffer
endOfBufferDelivered ==
    \/ EndedCurrent /\ player.sourceRef.st = "finished"
    \/ \E i \in 1..Len(player.orphans) :
          /\ player.orphans[i].st = "finished"
          /\ endedOrphan(i)

pauseWhilePlaying ==
    (ClockPause /\ player.isPlaying) =>
        /\ runningNodes(player') = 0
        /\ player'.sourceRef.st = "none"
        /\ player'.pauseTimeRef = now - player.startTimeRef
        /\ ~player'.isPlaying

pauseWhilePaused ==
    (ClockPause /\ ~player.isPlaying) =>
        /\ player'.pauseTimeRef = player.pauseTimeRef
        /\ ~player'.isPlaying
        /\ getCurrentTime(player', now') = getCurrentTime(player, now)

pausedTimeIsOffset ==
    (player.contextRef /\ ~player.isPlaying) =>
        getCurrentTime(player, now) = player.pauseTimeRef

offsetKept ==
    (/\ ~player.isPlaying /\ ~player'.isPlaying
     /\ player'.pauseTimeRef # player.pauseTimeRef)
    => \/ ClockSeek \/ ClockStop \/ ClockReset \/ ClockLoad
       \/ endOfBufferDelivered

\* C24: pause() while playing halts the running node, stores the hardware
\* clock less the anchor as the paused offset and sets isPlaying false;
\* pause() while not playing keeps the offset; while not playing
\* getCurrentTime() is the stored offset; and between two states that are
\* not playing the stored offset changes only in a seek, stop, reset or load
\* or when a node that played to its end reports it.
C24_PauseKeepsOffset ==
    [][/\ pauseWhilePlaying
       /\ pauseWhilePaused
       /\ pausedTimeIsOffset
       /\ offsetKept]_vars


\* play() on state p starts the buffer of p from its beginning
playsFromStart(p, t) ==
    \A cb \in BOOLEAN :
        LET q == play(p, cb, t) IN
        /\ q.sourceRef.st = "running"
        /\ q.sourceRef.buf = p.bufferRef
        /\ q.sourceRef.endAt = t + DurOf(p.bufferRef)
        /\ q.startTimeRef = t
        /\ getCurrentTime(q, t) = 0

\* C25: stop() sets the offset to 0 and isPlaying false, halts the node and
\* keeps the buffer and the duration, so that play() then starts the same
\* buffer from 0; reset() also discards the buffer and the duration:
\* getDuration() is 0 and every field of the hook is as at construction
\* (the AudioContext, once created, is kept).
C25_StopKeepsResetDiscards ==
    [][/\ ClockStop =>
             /\ player'.pauseTimeRef = 0
             /\ ~player'.isPlaying
             /\ runningNodes(player') = 0
             /\ player'.bufferRef = player.bufferRef
             /\ player'.duration = player.duration
             /\ getDuration(player') = getDuration(player)
             /\ player.bufferRef # NoBuf => playsFromStart(player', now')
       /\ ClockReset =>
             /\ player'.bufferRef = NoBuf
             /\ getDuration(player') = 0
             /\ getCurrentTime(player', now') = 0
             /\ runningNodes(player') = 0
             /\ [player' EXCEPT !.contextRef = FALSE, !.orphans = <<>>]
                  = initialPlayer]_vars

\* a loaded clip was playing for a while when stop() halted it
C25_Witness ==
    /\ player.bufferRef # NoBuf
    /\ player.duration = DurOf(player.bufferRef)
    /\ ~player.isPlaying
    /\ player.pauseTimeRef = 0
    /\ player.sourceRef.st = "none"
    /\ Len(player.orphans) = 1
    /\ player.orphans[1].st = "halted"
    /\ now - player.startTimeRef > 0
    /\ now - player.startTimeRef < player.duration


\* play() is called in this step with a buffer loaded
playLoaded == ClockPlay /\ player.bufferRef # NoBuf

\* the position in the buffer at which the node of sourceRef is now
runPosition(p, t) == DurOf(p.sourceRef.buf) - (p.sourceRef.endAt - t)

\* the step started a node on the loaded buffer at position off, and the
\* hook reports that position
startsRunAt(off) ==
    /\ player'.isPlaying
    /\ player'.sourceRef.by = "play"
    /\ player'.sourceRef.buf = player.bufferRef
    /\ runPosition(player', now') = off
    /\ getCurrentTime(player', now') = off

\* C26 as claimed: play() with audio loaded starts the run at the paused
\* offset modulo the duration, which is the paused offset when that is below
\* the duration and 0 when it is at or beyond the duration, and
\* getCurrentTime() is that position at the instant of play().
C26_PlayWrapsToZero ==
    [][playLoaded =>
          LET d == DurOf(player.bufferRef) IN
          /\ startsRunAt(player.pauseTimeRef % d)
          /\ player.pauseTimeRef < d => startsRunAt(player.pauseTimeRef)
          /\ player.pauseTimeRef >= d => startsRunAt(0)]_vars

\* C26, amended: the same, the run starting at 0 when the paused offset
\* equals the duration and at the offset less a whole number of durations
\* when it is beyond.
C26_PlayWraps ==
    [][playLoaded =>
          LET d == DurOf(player.bufferRef) IN
          /\ startsRunAt(player.pauseTimeRef % d)
          /\ player.pauseTimeRef < d => startsRunAt(player.pauseTimeRef)
          /\ player.pauseTimeRef = d => startsRunAt(0)
          /\ player.pauseTimeRef > d =>
                \E n \in 1..MaxNow : /\ player.pauseTimeRef - n * d \in 0..(d - 1)
                                     /\ startsRunAt(player.pauseTimeRef - n * d)]_vars

\* play() has just started a run from a paused offset beyond the duration
C26_Witness ==
    /\ player.isPlaying
    /\ player.sourceRef.st = "running"
    /\ player.sourceRef.by = "play"
    /\ player.sourceRef.buf = player.bufferRef
    /\ player.pauseTimeRef > DurOf(player.bufferRef)
    /\ getCurrentTime(player, now) = player.pauseTimeRef % DurOf(player.bufferRef)
    /\ getCurrentTime(player, now) > 0


\* seek(time, cb) called in this step while the hook is playing a loaded
\* buffer restarts the run at the clamped time, with cb wired to its end
seekRestartsRun ==
    \A time \in SeekTimes, cb \in BOOLEAN :
        (/\ ClockSeek
         /\ player.isPlaying /\ player.bufferRef # NoBuf
         /\ player' = seek(player, time, cb, now))
        => LET target == Max(0, Min(time, DurOf(player.bufferRef))) IN
           /\ player'.isPlaying
           /\ player'.sourceRef.by = "seek"
           /\ player'.sourceRef.buf = player.bufferRef
           /\ player'.sourceRef.cb = cb
           /\ runPosition(player', now') = target
           /\ getCurrentTime(player', now') = target
           /\ runningNodes(player') <= 1

\* the run seek started is in progress
seekRunInProgress ==
    /\ player.isPlaying
    /\ player.sourceRef.by = "seek"
    /\ player.sourceRef.st = "running"

\* until the run ends, and unless pause, stop, reset, play or seek is
\* called, the hook stays playing and no callback is called
seekRunUndisturbed ==
    (seekRunInProgress /\ (Tick \/ EndedOrphan \/ ClockLoad)) =>
        /\ player'.isPlaying
        /\ lastEnded' # lastEnded => lastEnded'.calls = 0

\* the end of the run, handled inside the tolerance, calls the callback once
seekRunEnds ==
    (/\ EndedCurrent
     /\ player.isPlaying
     /\ player.sourceRef.by = "seek"
     /\ player.sourceRef.st = "finished"
     /\ now - player.sourceRef.endAt < Tol
     /\ player.bufferRef = player.sourceRef.buf)
    => /\ lastEnded'.calls = IF player.sourceRef.cb THEN 1 ELSE 0
       /\ ~player'.isPlaying
       /\ player'.sourceRef.st = "dead"

\* C27: seek(t) while playing restarts the run at clamp(t, 0, duration) with
\* the callback wired, getCurrentTime() being the clamped target right after;
\* isPlaying stays true and no callback is called while that run is in
\* progress; and when the run reaches its end the callback is called once.
C27_SeekWhilePlaying ==
    [][seekRestartsRun /\ seekRunUndisturbed /\ seekRunEnds]_vars


\* C28: handleSeek passes the requested time to the clock's seek and sets
\* the progress time in the same step; when the clock is not playing, the
\* progress time right after the step is the clock's getCurrentTime(),
\* whatever time was requested.
C28_SeekProgressMatchesClock ==
    [][HandleSeek =>
          /\ \E time \in SliderTimes :
                /\ player' = seek(player, time, TRUE, now)
                /\ uiCurrentTime' = time
          /\ ~player.isPlaying =>
                uiCurrentTime' = getCurrentTime(player', now')]_vars


\* the numbers of a call, as integers on the finest scale among them
scaleOf(t, dur) ==
    LET es == {dur.e} \cup {t[i].start.e : i \in 1..Len(t)}
                      \cup {t[i].end.e : i \in 1..Len(t)}
    IN CHOOSE e \in es : \A f \in es : e <= f

onScale(x, lo) == x.m * 2^(x.e - lo)

\* the sum over the lines of (length + 10)
RECURSIVE sumOfWeights(_)
sumOfWeights(lines) ==
    IF lines = <<>> THEN 0
    ELSE (Head(lines) + 10) + sumOfWeights(Tail(lines))

\* entry i is as wide as dur * (length + 10) / sum, exactly
widthExact(i) ==
    LET lo == scaleOf(lineTimings, calcArgs.dur)
        width == onScale(lineTimings[i].end, lo) - onScale(lineTimings[i].start, lo)
    IN width * sumOfWeights(calcArgs.lines)
         = onScale(calcArgs.dur, lo) * (calcArgs.lines[i] + 10)

\* entry i is as wide as dur * (length + 10) / sum to within the rounding of
\* its two ends: 2 * dur * g / (1 - g) with g = (n + 1) * 2^-FloatBits
widthNear(i) ==
    LET lo == scaleOf(lineTimings, calcArgs.dur)
        n == Len(lineTimings)
        W == sumOfWeights(calcArgs.lines)
        D == onScale(calcArgs.dur, lo)
        width == onScale(lineTimings[i].end, lo) - onScale(lineTimings[i].start, lo)
    IN Abs(width * W - D * (calcArgs.lines[i] + 10)) * (2^FloatBits - (n + 1))
         <= 2 * (n + 1) * D * W

\* x is num / den exactly
isRatio(x, num, den) ==
    LET lo == Min(x.e, 0) IN den * onScale(x, lo) = num * 2^(0 - lo)

\* x is num / den to within the rounding of one quotient and one product
nearRatio(x, num, den) ==
    LET lo == Min(x.e, 0)
    IN Abs(den * onScale(x, lo) - num * 2^(0 - lo)) * (2^FloatBits - 2)
         <= 2 * num * 2^(0 - lo)

cumulative ==
    /\ Len(lineTimings) = Len(calcArgs.lines)
    /\ \A i \in 1..Len(lineTimings) :
          /\ lineTimings[i].id = i
          /\ lineTimings[i].start = IF i = 1 THEN Zero ELSE lineTimings[i - 1].end

exampleCalculated ==
    /\ resumed = Calculated
    /\ calcArgs = [lines |-> ExampleLines, dur |-> Ten]

\* C29 as claimed: the ranges are laid end to end in line order, each as
\* wide as duration * (length + 10) / sum of (length + 10); for the lines
\* "Hi" and "Hello there" and the duration 10 the weights are 12 and 21 and
\* the first range ends at 120/33.
C29_WidthIsShare ==
    resumed = Calculated =>
        /\ cumulative
        /\ \A i \in 1..Len(lineTimings) : widthExact(i)
        /\ exampleCalculated =>
              /\ weight(ExampleLines[1]) = 12 /\ weight(ExampleLines[2]) = 21
              /\ totalWeight(ExampleLines) = 33
              /\ isRatio(lineTimings[1].end, 120, 33)
              /\ lineTimings[2].start = lineTimings[1].end

\* C29, amended: the same, each width and the boundary of the example
\* equal to the stated quotient to within floating-point rounding.
C29_WidthNearShare ==
    resumed = Calculated =>
        /\ cumulative
        /\ \A i \in 1..Len(lineTimings) : widthNear(i)
        /\ exampleCalculated =>
              /\ weight(ExampleLines[1]) = 12 /\ weight(ExampleLines[2]) = 21
              /\ totalWeight(ExampleLines) = 33
              /\ nearRatio(lineTimings[1].end, 120, 33)
              /\ lineTimings[2].start = lineTimings[1].end

\* the table of the example, its boundary not exactly 120/33
C29_Witness ==
    /\ exampleCalculated
    /\ Len(lineTimings) = 2
    /\ nearRatio(lineTimings[1].end, 120, 33)
    /\ ~isRatio(lineTimings[1].end, 120, 33)
    /\ lineTimings[2].start = lineTimings[1].end


\* x is a number: zero, or a significand of FloatBits bits
isNumber(x) == x = Zero \/ x.m \in 2^(FloatBits - 1)..(2^FloatBits - 1)

\* C30: a call with no lines returns the empty table; with one line, the
\* one range from 0 to the duration; with the duration 0, ranges that start
\* and end at the same point; every call returns one entry of two numbers
\* per line, start not after end, and the table a call with the same
\* arguments returns again.
C30_TimingEdgeCases ==
    resumed = Calculated =>
        /\ calcArgs.lines = <<>> => lineTimings = <<>>
        /\ Len(calcArgs.lines) = 1 =>
              lineTimings = <<[id |-> 1, start |-> Zero, end |-> calcArgs.dur]>>
        /\ calcArgs.dur = Zero =>
              \A i \in 1..Len(lineTimings) : lineTimings[i].start = lineTimings[i].end
        /\ Len(lineTimings) = Len(calcArgs.lines)
        /\ \A i \in 1..Len(lineTimings) :
              /\ isNumber(lineTimings[i].start) /\ isNumber(lineTimings[i].end)
              /\ fleq(lineTimings[i].start, lineTimings[i].end)
        /\ lineTimings = calculateTimings(calcArgs.lines, calcArgs.dur)

\* the table of three lines and the duration 0
C30_Witness ==
    /\ resumed = Calculated
    /\ calcArgs.dur = Zero
    /\ Len(calcArgs.lines) = 3
    /\ Len(lineTimings) = 3
    /\ \A i \in 1..3 : lineTimings[i].start = Zero /\ lineTimings[i].end = Zero


\* C36: a non-null token is the id of the session shown, and the token is
\* null when no session is shown.
C36_TokenNamesDisplayed ==
    /\ currentScriptIdRef # NoId => currentScriptIdRef = script
    /\ script = NoId => currentScriptIdRef = NoId

\* a script arrived and replaced a selected session whose lookup is still
\* pending: token and script both name the new session
C36_Witness ==
    /\ resumed.outcome = "script"
    /\ currentScriptIdRef = resumed.sid
    /\ script = resumed.sid
    /\ \E r \in BagToSet(pipes) : r.pc = "cacheGet" /\ r.sid # script

\* C37: while the session awaits its audio (isGeneratingAudio, or the clock
\* decoding) the clock is not playing; and while the token names the same
\* session the indicator goes off only in a step that loads that session's
\* audio.
C37_NotPlayingWhileAwaiting ==
    [][/\ (isGeneratingAudio' \/ player'.isLoading) => ~player'.isPlaying
       /\ (/\ currentScriptIdRef # NoId
           /\ currentScriptIdRef' = currentScriptIdRef
           /\ isGeneratingAudio /\ ~isGeneratingAudio')
          => /\ player'.bufferRef = currentScriptIdRef
             /\ loadCount' = loadCount + 1]_vars


\* what a session in progress consists of
sessionKept ==
    UNCHANGED <<currentScriptIdRef, script, player, isLoading, isGeneratingAudio,
                error, activeLineId, uiCurrentTime, pipes, genCount, loadCount>>

\* C40: a click on the history entry of the session shown leaves token,
\* script, clock, flags, history and cache as they are and starts no
\* acquisition; deleting an entry other than that of the session shown
\* removes the entry and its cached audio and leaves the session as it is.
C40_SameItemAndOtherDelete ==
    [][/\ (script # NoId /\ script' = script /\ HandleSelectHistory)
          => sessionKept /\ UNCHANGED <<history, cache>>
       /\ (/\ Len(history') < Len(history)
           /\ script \notin idsOf(history) \/ script \in idsOf(history')
           /\ DeleteFromHistory)
          => sessionKept]_vars

\* signed out, the session of one entry is shown and playing its audio,
\* and the other entry has been deleted
C40_Witness ==
    /\ ~user
    /\ script \in idsOf(history)
    /\ Len(history) = 1
    /\ currentScriptIdRef = script
    /\ player.bufferRef = script
    /\ player.isPlaying
    /\ player.sourceRef.st = "running"


\* C38: in every state of the hook getCurrentTime() lies between 0 and the
\* duration.
C38_TimeWithinDuration ==
    /\ 0 <= getCurrentTime(player, now)
    /\ getCurrentTime(player, now) <= player.duration

\* ------------------------------------------------------ audio generator
hasAudio(r) == r.ok /\ r.data
rateLimited(r) == ~r.ok /\ (r.message429 \/ r.status429 \/ r.exhausted)
failureOf(r) == IF r.ok THEN noAudioError ELSE r

\* C34: a call of the audio generator issues at most two synthesis requests.
\* Without a non-empty line list it fails with no request.  Otherwise the
\* first request is the multi-speaker one: its audio is returned; its
\* rate-limit failure (429, RESOURCE_EXHAUSTED) is thrown with no second
\* request; after any other failure of it, an empty audio result included,
\* exactly one single-voice request follows, whose audio is returned and
\* whose failure is thrown.
C34_AtMostOneFallback ==
    /\ Len(tts.requests) <= 2
    /\ tts.pc = "multi" => tts.requests = <<"multi">>
    /\ tts.pc = "single" =>
          /\ tts.requests = <<"multi", "single">>
          /\ ~hasAudio(tts.first) /\ ~rateLimited(tts.first)
    /\ tts.pc \in {"returned", "threw"} =>
          IF ~tts.input.isArray \/ tts.input.lines = <<>>
          THEN tts.pc = "threw" /\ tts.requests = <<>>
          ELSE IF hasAudio(tts.first)
               THEN /\ tts.pc = "returned" /\ tts.requests = <<"multi">>
                    /\ tts.last = tts.first
          ELSE IF rateLimited(tts.first)
               THEN /\ tts.pc = "threw" /\ tts.requests = <<"multi">>
                    /\ tts.last = tts.first
          ELSE /\ tts.requests = <<"multi", "single">>
               /\ IF hasAudio(tts.second)
                  THEN tts.pc = "returned" /\ tts.last = tts.second
                  ELSE tts.pc = "threw" /\ tts.last = failureOf(tts.second)

C34_Witness ==
    /\ tts.pc = "threw"
    /\ tts.requests = <<"multi", "single">>
    /\ tts.first.ok /\ ~tts.first.data
    /\ rateLimited(tts.second)
    /\ tts.last = tts.second

\* ---------------------------------------------------- definition lookup
\* C35: a lookup made after a lookup of the same lower-cased word has
\* returned (since the page was loaded) returns what that one returned,
\* whatever its spelling, and makes no remote call; and a lookup whose entry
\* could not be written to localStorage still returns its result.
C35_CachedByLowerCasedWord ==
    /\ looked.known # NoItem =>
          /\ looked.outcome = "returned"
          /\ looked.result = looked.known
          /\ ~looked.remote
    /\ (looked.remote /\ looked.result # NoItem) => looked.outcome = "returned"

\* -------------------------------------------------------- sampling loop
\* the table computeTimings gives for the displayed session and the decoded
\* duration of its audio
tableOfDisplayed == calculateTimings(linesOf(script), asNumber(DurOf(script)))

\* C31: while a session is displayed, the timing table that highlighting
\* and line jumps read, once one has been computed, is the table of that
\* session's lines and of the duration of that session's audio, never one
\* left from another session or another duration.
C31_TableOfDisplayedSession ==
    (script # NoId /\ ~timingsDue /\ lineTimings # <<>>)
        => lineTimings = tableOfDisplayed

\* the entries of the table whose range [start, end) contains the time t
entriesAt(t) == {i \in 1..Len(lineTimings) : contains(lineTimings[i], t)}

\* C32: a sampling tick (taken while playing) makes the active line the
\* line of the one table entry that contains the sampled time; it clears the
\* active line when no entry contains the sampled time and that time is
\* within 0.1 s of the duration; and it changes the progress time only
\* together with the active line.
C32_SamplingTick ==
    [][(resumed' = Sampled) =>
          LET t == getCurrentTime(player, now)
          IN /\ player.isPlaying
             /\ entriesAt(t) # {} =>
                   /\ Cardinality(entriesAt(t)) = 1
                   /\ \A i \in entriesAt(t) : activeLineId' = lineTimings[i].id
             /\ (entriesAt(t) = {} /\ Abs(t - player.duration) <= Epsilon)
                   => activeLineId' = NoId
             /\ activeLineId' = activeLineId => uiCurrentTime' = uiCurrentTime
             /\ activeLineId' # activeLineId =>
                   uiCurrentTime' = IF activeLineId' = NoId THEN player.duration ELSE t]_vars

C32_Witness ==
    /\ resumed = Sampled
    /\ player.isPlaying /\ player.duration = DurOf(2)
    /\ lineTimings = tableOfDisplayed
    /\ getCurrentTime(player, now) = 2
    /\ activeLineId = 2 /\ uiCurrentTime = 2

\* C33: when isPlaying goes from true to false, by a pause or at the
\* natural end, a last sample is taken, so that the progress time shown is
\* the clock's getCurrentTime().
C33_FinalSample ==
    [][(player.isPlaying /\ ~player'.isPlaying)
          => uiCurrentTime' = getCurrentTime(player', now')]_vars

\* C39: the active line is null or a line of the displayed session; it is
\* null right after a history entry is selected; and a line jump that takes
\* place makes the clicked line the active line and puts the clock at the
\* start of that line's range.
C39_ActiveLineOfDisplayed ==
    [][/\ activeLineId' # NoId =>
             script' # NoId /\ activeLineId' \in 1..Len(linesOf(script'))
       /\ script' # script => activeLineId' = NoId
       /\ (/\ activeLineId' # NoId
           /\ activeLineId' # activeLineId \/ player' # player
           /\ HandleLineJump)
          => \E i \in 1..Len(lineTimings) :
                /\ lineTimings[i].id = activeLineId'
                /\ asNumber(getCurrentTime(player', now')) = lineTimings[i].start]_vars

====
